---- MODULE Spec2Model ----
(***************************************************************************)
(* Model of the time-triggered competitive claim orchestrator:             *)
(*   server/transaction.go  Withdraw handler, scheduler, event sink        *)
(*   server bot (two variants in the tree: prepareTransfer with a 30 s     *)
(*   budget, continuousTransferMonitor without one)                        *)
(*   util/util.go           ExtractClaimableTime                           *)
(* The ledger (Horizon) is the environment: it lets a claimable balance be *)
(* claimed at most once and may reject any submission.                     *)
(***************************************************************************)
EXTENDS Integers, Sequences, FiniteSets, Bags, TLC

(* ---------------------------- bounds ----------------------------------- *)
\* maxAttempts is 200 in aggressiveClaim; the model runs the same loop with
\* a small budget.
maxAttempts == 2
\* last instant of the model clock (seconds)
MaxClock == 8
\* largest absolute time carried by a predicate in the resolver universe
MaxPredTime == 7

(* ------------------------ program constants ---------------------------- *)
NumWorkers == 5
LeadWindow == 5
Epoch == 0

Workers == 0 .. (NumWorkers - 1)

(* ------------------------- claim predicates ---------------------------- *)
\* xdr.ClaimPredicate: a tagged union.  Nil is the absent *NotPredicate.
Nil == [type |-> "nil"]
Uncond == [type |-> "UNCONDITIONAL"]
BeforeAbs(t) == [type |-> "BEFORE_ABSOLUTE_TIME", abs |-> t]
BeforeRel(d) == [type |-> "BEFORE_RELATIVE_TIME", rel |-> d]
NotP(p) == [type |-> "NOT", inner |-> p]
AndP(p, q) == [type |-> "AND", left |-> p, right |-> q]
OrP(p, q) == [type |-> "OR", left |-> p, right |-> q]

PredTimes == 0 .. MaxPredTime
LeafPreds == {Uncond} \cup {BeforeAbs(t) : t \in PredTimes} \cup {BeforeRel(d) : d \in {1, 2}}
Depth1Preds == LeafPreds \cup {NotP(p) : p \in LeafPreds \cup {Nil}}
                 \cup {AndP(Uncond, p) : p \in LeafPreds} \cup {OrP(Uncond, p) : p \in LeafPreds}
Preds == Depth1Preds \cup {NotP(p) : p \in Depth1Preds \ LeafPreds}

\* Result of a resolver call: (time, ok), or a nil-pointer fault.
Resolved(t) == [time |-> t, ok |-> TRUE, fault |-> FALSE]
Unresolved == [time |-> Epoch, ok |-> FALSE, fault |-> FALSE]
Fault == [time |-> Epoch, ok |-> FALSE, fault |-> TRUE]

\* util.ExtractClaimableTimeOld, the resolver before the switch was
\* introduced: only NOT(BEFORE_ABSOLUTE_TIME(t)) resolves.  Nothing calls it;
\* it serves as the fault variant of ExtractClaimableTime.
ExtractClaimableTimeOld(p) ==
  IF p.type # "NOT" THEN Unresolved
  ELSE IF p.inner.type = "nil" THEN Fault
  ELSE IF p.inner.type # "BEFORE_ABSOLUTE_TIME" THEN Unresolved
  ELSE Resolved(p.inner.abs)

\* util.ExtractClaimableTime: switch on the predicate type.
ExtractClaimableTime(p) ==
  CASE p.type = "NOT" ->
         IF p.inner.type = "nil" THEN Fault
         ELSE IF p.inner.type # "BEFORE_ABSOLUTE_TIME" THEN Unresolved
         ELSE Resolved(p.inner.abs)
    [] p.type = "UNCONDITIONAL" -> Resolved(Epoch)
    [] OTHER -> Unresolved

(* ------------------------------ state ---------------------------------- *)
VARIABLES
  now,          \* wall clock, in seconds
  variant,      \* which bot source is built: "timed" (prepareTransfer) or "continuous"
  request,      \* what the observer sends: see Requests
  resource,     \* ledger: claimants of the requested claimable balance
  hpc,          \* position of the Withdraw handler goroutine
  balance,      \* claimants of the fetched claimable balance: Seq of [dest, pred]
  claimableAt,  \* unlock instant resolved by handleLockedBalance
  wakeAt,       \* instant the current time.Sleep of the handler goroutine ends
  slept,        \* TRUE once the handler goroutine has gone through a time.Sleep
  unlockPast,   \* "yes"/"no": the unlock instant was before the clock when it was
                \* resolved; "unknown" until then
  spawnI,       \* loop variable i of the fan-out loop
  spawned,      \* worker ids handed to the go statements, in launch order
  monitors,     \* number of relay monitor goroutines launched
  wg,           \* sync.WaitGroup counter
  cancelled,    \* cb.ctx is done (cb.cancel was called)
  workers,      \* the running aggressiveClaim goroutines: a bag of worker states
  mpc,          \* position of the relay monitor
  mtext,        \* availableBalance string held by the relay monitor
  apc,          \* position of the handleAvailableBalance goroutine
  aout,         \* action of the event handleAvailableBalance is writing
  writeMu,      \* holder of the package-level writeMu ("free" when unlocked)
  botMu,        \* holder of cb.mutex (Free when unlocked)
  connClosed,   \* conn.Close() has run
  claimed,      \* ledger: the claimable balance has been claimed
  funds,        \* ledger: spendable units on the primary account
  nError,       \* events written with action "error"
  nNoAction,    \* events written without an action field
  nSuccessAttempt, \* attempt events written with success = true
  nAttempt,     \* attempt events written
  nWorkerSuccess, \* success events written by claim workers
  nRelayed,     \* success events written by the relay monitor
  wid,          \* id of the aggressiveClaim goroutine under observation (NoWorker: none)
  trace,        \* what the observed goroutine did: its submissions and its events
  p,            \* resolver harness: the predicate under resolution
  res,          \* resolver harness: [called, out], out the result of the call on p
  sponsored,    \* submission harness: cb.sponsorKp != nil
  fpc,          \* submission harness: position within one claim submission
  tx,           \* submission harness: the transaction being built: [source, fee, signers]
  subs,         \* submission harness: the transactions submitted so far, in order
  bn,           \* backoff harness: loop variable attempt of the worker (0: not run)
  bprev,        \* backoff harness: milliseconds slept after attempt bn - 1 (0: none)
  bsleep        \* backoff harness: milliseconds slept after attempt bn (0: not yet)

vars == <<now, variant, request, resource, hpc, balance, claimableAt, wakeAt,
          slept, unlockPast, spawnI, spawned, monitors, wg, cancelled, workers, mpc, mtext,
          apc, aout, writeMu, botMu, connClosed, claimed, funds, nError, nNoAction,
          nSuccessAttempt, nAttempt, nWorkerSuccess, nRelayed, wid, trace, p, res,
          sponsored, fpc, tx, subs, bn, bprev, bsleep>>

\* holders of cb.mutex: nobody, a claim worker, the relay monitor, the
\* goroutine running StartAggressiveBot
Free == "free"
Claimer == "worker"
Mon == "monitor"
Orch == "orchestrator"

\* State of one aggressiveClaim goroutine: its position, its loop variable
\* attempt and, while it reports a submission, that submission's err.  The
\* five workers run the same code on the same fields of the bot and differ
\* only in the id printed in their events, so the model keeps how many
\* workers are in each state.
WorkerState(pc, n, e) == [pc |-> pc, attempt |-> n, err |-> e]

feeVars == <<sponsored, fpc, tx, subs>>
backoffVars == <<bn, bprev, bsleep>>
envVars == <<variant, request, resource, wid, p, res, feeVars, backoffVars>>
reqVars == <<balance, claimableAt, unlockPast>>
schedVars == <<wakeAt, slept>>
spawnVars == <<spawnI, spawned, monitors>>
workerVars == <<workers>>
monVars == <<mpc, mtext>>
availVars == <<apc, aout>>
ledgerVars == <<claimed, funds>>
eventVars == <<nError, nNoAction, nSuccessAttempt>>
raceVars == <<nAttempt, nWorkerSuccess, nRelayed>>

(* --------------------------- environment -------------------------------- *)
\* What the first websocket message and the seed phrases amount to: a
\* message that cannot be read, malformed JSON, a seed phrase or a sponsor
\* phrase no key derives from, or a well-formed request (with or without a
\* sponsor: the sponsor selects the submission call and its fee, not the
\* control flow).
Requests == {"readErr", "malformed", "badSeed", "badSponsor", "ok"}

\* Claimant lists the ledger can hold for the requested balance id.  "main"
\* is the address of the primary signer.
Claimant(d, q) == [dest |-> d, pred |-> q]
UnlockTimes == {1, 2, 4, MaxClock}
ClaimantLists ==
  {<<>>}
    \cup {<<Claimant("main", q)>> :
            q \in {Uncond, BeforeAbs(4), NotP(Nil), NotP(Uncond)}
                    \cup {NotP(BeforeAbs(t)) : t \in UnlockTimes}}
    \cup {<<Claimant("other", NotP(BeforeAbs(1))), Claimant("main", NotP(BeforeAbs(MaxClock)))>>,
          <<Claimant("other", NotP(BeforeAbs(1)))>>}

\* The lists of the race specification: one that resolves (its race starts
\* at MaxClock, after a sleep) and the ones that do not.
RaceLists ==
  {<<>>, <<Claimant("main", BeforeAbs(4))>>, <<Claimant("main", NotP(Nil))>>,
   <<Claimant("main", NotP(BeforeAbs(MaxClock + LeadWindow)))>>}

\* Strings GetAvailableBalance can return for a zero spendable balance (the
\* raw "0" of wallet.go, the "%.2f" of the reserve-adjusted variant) and
\* the string for a positive one.
ZeroTexts == {"0", "0.00"}
BalanceTexts(f) == IF f = 0 THEN ZeroTexts ELSE {"1.00"}

(* ------------------------------ Init ------------------------------------ *)
\* the clock when the request arrives
StartClock == 2

\* no goroutine is under observation
NoWorker == 0 - 1

NotCalled == [called |-> FALSE, out |-> Unresolved]

\* no transaction has been built
NoTx == [source |-> "", fee |-> 0, signers |-> {}]

InitCommon ==
  /\ now = StartClock
  /\ balance = <<>>
  /\ claimableAt = Epoch
  /\ wakeAt = Epoch
  /\ slept = FALSE
  /\ unlockPast = "unknown"
  /\ spawnI = 0
  /\ spawned = <<>>
  /\ monitors = 0
  /\ wg = 0
  /\ cancelled = FALSE
  /\ workers = EmptyBag
  /\ mpc = "idle"
  /\ mtext = ""
  /\ aout = ""
  /\ writeMu = "free"
  /\ botMu = Free
  /\ connClosed = FALSE
  /\ claimed = FALSE
  /\ nError = 0
  /\ nNoAction = 0
  /\ nSuccessAttempt = 0
  /\ nAttempt = 0
  /\ nWorkerSuccess = 0
  /\ nRelayed = 0
  /\ trace = <<>>
  /\ sponsored = FALSE
  /\ fpc = "idle"
  /\ tx = NoTx
  /\ subs = <<>>
  /\ bn = 0
  /\ bprev = 0
  /\ bsleep = 0

Init ==
  /\ InitCommon
  /\ wid = NoWorker
  /\ apc = "idle"
  /\ variant \in {"timed", "continuous"}
  /\ request \in Requests
  /\ resource \in RaceLists
  /\ funds \in {0, 1}
  /\ hpc = "read"
  /\ p = Nil
  /\ res = NotCalled

\* The scheduler specification: a well-formed request against every
\* claimant list.
InitSched ==
  /\ InitCommon
  /\ wid = NoWorker
  /\ apc = "idle"
  /\ variant \in {"timed", "continuous"}
  /\ request = "ok"
  /\ resource \in ClaimantLists
  /\ funds \in {0, 1}
  /\ hpc = "read"
  /\ p = Nil
  /\ res = NotCalled

\* The resolver specification: ExtractClaimableTime on every predicate of
\* the universe.
InitResolve ==
  /\ InitCommon
  /\ wid = NoWorker
  /\ apc = "idle"
  /\ variant = "timed"
  /\ request = "ok"
  /\ resource = <<>>
  /\ funds = 0
  /\ hpc = "resolver"
  /\ p \in Preds
  /\ res = NotCalled

(* ----------------------- Withdraw handler ------------------------------- *)
\* Withdraw up to the go statement: ReadMessage, json.Unmarshal, the two
\* GetKeyFromSeed calls, the server_time event.  No other goroutine of the
\* session exists yet, so each write is one step.
Withdraw ==
  /\ hpc = "read"
  /\ IF request \in {"readErr", "malformed"}
       THEN \* conn.WriteJSON(gin.H{"message": ...}); return
            /\ nNoAction' = nNoAction + 1
            /\ hpc' = "returned"
            /\ connClosed' = TRUE
            /\ UNCHANGED <<nError, apc>>
       ELSE IF request \in {"badSeed", "badSponsor"}
       THEN \* s.sendErrorResponse(conn, ...); return
            /\ nError' = nError + 1
            /\ hpc' = "returned"
            /\ connClosed' = TRUE
            /\ UNCHANGED <<nNoAction, apc>>
       ELSE \* server_time event, go s.handleAvailableBalance, handleLockedBalance
            /\ apc' = "query"
            /\ hpc' = "lookup"
            /\ UNCHANGED <<nError, nNoAction, connClosed>>
  /\ UNCHANGED <<now, envVars, reqVars, schedVars, spawnVars, wg, cancelled,
                 workerVars, monVars, aout, writeMu, botMu, ledgerVars, nSuccessAttempt,
                 raceVars, trace>>

\* The claimant handleLockedBalance and StartAggressiveBot resolve the
\* unlock instant from: balance.Claimants[0].
SelectedClaimant(b) == b[1]

\* Where handleLockedBalance goes from the lookup: the error write, a
\* runtime panic (index out of range, nil dereference), the immediate start
\* or the scheduled path.
LockedOutcome(lookupOk, b, t) ==
  IF ~lookupOk THEN "wErr"
  ELSE IF Len(b) = 0 THEN "fault"
  ELSE LET r == ExtractClaimableTime(SelectedClaimant(b).pred) IN
       IF r.fault THEN "fault"
       ELSE IF ~r.ok THEN "wErr"
       ELSE IF t > r.time THEN "startBot"
       ELSE "wSched"

\* handleLockedBalance: GetClaimableBalance, ExtractClaimableTime, the
\* time.Now().After test; a send takes writeMu and enters conn.WriteJSON.
HandleLockedBalance ==
  /\ hpc = "lookup"
  /\ \E lookupOk \in BOOLEAN :
       LET nxt == LockedOutcome(lookupOk, resource, now) IN
         /\ (nxt \in {"wErr", "wSched"}) => (writeMu = "free")
         /\ hpc' = nxt
         /\ writeMu' = IF nxt \in {"wErr", "wSched"} THEN "handler" ELSE writeMu
         /\ balance' = IF lookupOk THEN resource ELSE balance
         /\ claimableAt' = IF nxt \in {"startBot", "wSched"}
                             THEN ExtractClaimableTime(SelectedClaimant(resource).pred).time
                             ELSE claimableAt
         /\ unlockPast' = IF nxt \in {"startBot", "wSched"}
                            THEN (IF claimableAt' < now THEN "yes" ELSE "no")
                            ELSE unlockPast
         /\ connClosed' = (nxt = "fault")
  /\ UNCHANGED <<now, envVars, schedVars, spawnVars, wg, cancelled, workerVars,
                 monVars, availVars, botMu, ledgerVars, eventVars,
                 raceVars, trace>>

\* sendErrorResponse completes; handleLockedBalance and Withdraw return.
HandlerErrorEnd ==
  /\ hpc = "wErr"
  /\ writeMu' = "free"
  /\ nError' = nError + 1
  /\ hpc' = "returned"
  /\ connClosed' = TRUE
  /\ UNCHANGED <<now, envVars, reqVars, schedVars, spawnVars, wg, cancelled, workerVars,
                 monVars, availVars, botMu, ledgerVars, nNoAction, nSuccessAttempt,
                 raceVars, trace>>

\* Fault variants of WaitDuration: the lead window added instead of
\* subtracted; the wait computed to the unlock instant itself.
WaitDurationLate(unlock, t) == (unlock + LeadWindow) - t
WaitDurationToUnlock(unlock, t) == unlock - t

\* startTime := claimableAt.Add(-5 * time.Second); time.Until(startTime)
WaitDuration(unlock, t) == (unlock - LeadWindow) - t

\* scheduleAggressiveBot: the "scheduled" event completes, then the wait is
\* computed and, when positive, slept.
ScheduleAggressiveBot ==
  /\ hpc = "wSched"
  /\ writeMu' = "free"
  /\ IF WaitDuration(claimableAt, now) > 0
       THEN /\ hpc' = "sleep"
            /\ wakeAt' = now + WaitDuration(claimableAt, now)
            /\ slept' = TRUE
       ELSE /\ hpc' = "startBot"
            /\ UNCHANGED <<wakeAt, slept>>
  /\ UNCHANGED <<now, envVars, reqVars, spawnVars, wg, cancelled, workerVars, monVars,
                 availVars, botMu, connClosed, ledgerVars, nError, nNoAction, nSuccessAttempt,
                 raceVars, trace>>

\* time.Sleep returns once the clock has reached the end of the sleep.
Wake ==
  /\ hpc \in {"sleep", "botSleep"}
  /\ now >= wakeAt
  /\ hpc' = IF hpc = "sleep" THEN "startBot" ELSE "spawn"
  /\ UNCHANGED <<now, envVars, reqVars, schedVars, spawnVars, wg, cancelled, workerVars,
                 monVars, availVars, writeMu, botMu, connClosed, ledgerVars, eventVars,
                 raceVars, trace>>

\* The clock.  Only the scheduler reads it, so it advances while the
\* handler goroutine is ahead of the fan-out.
Tick ==
  /\ now < MaxClock
  /\ hpc \in {"read", "lookup", "wErr", "wSched", "sleep", "startBot", "bwInfo", "bwErr",
              "bwSched", "botSleep"}
  /\ now' = now + 1
  /\ UNCHANGED <<envVars, hpc, reqVars, schedVars, spawnVars, wg, cancelled, workerVars,
                 monVars, availVars, writeMu, botMu, connClosed, ledgerVars, eventVars,
                 raceVars, trace>>

(* ----------------------- StartAggressiveBot ----------------------------- *)
\* Where StartAggressiveBot goes first.  The continuous build announces the
\* start; the timed build resolves the unlock instant again (guarded by
\* len(balance.Claimants) > 0) and computes its own wait.
BotEntry(v, b, t) ==
  IF v = "continuous" THEN "bwInfo"
  ELSE IF Len(b) = 0 THEN "bwErr"
  ELSE LET r == ExtractClaimableTime(SelectedClaimant(b).pred) IN
       IF r.fault THEN "fault"
       ELSE IF ~r.ok THEN "bwErr"
       ELSE IF WaitDuration(r.time, t) > 0 THEN "bwSched"
       ELSE "spawn"

\* startAggressiveBot: NewConcurrentBot (a fresh context), then the head of
\* StartAggressiveBot up to its first send or to the fan-out loop.
StartAggressiveBot ==
  /\ hpc = "startBot"
  /\ LET nxt == BotEntry(variant, balance, now) IN
       /\ (nxt \in {"bwInfo", "bwErr", "bwSched"}) => (botMu = Free)
       /\ hpc' = nxt
       /\ botMu' = IF nxt \in {"bwInfo", "bwErr", "bwSched"} THEN Orch ELSE botMu
       /\ connClosed' = (nxt = "fault")
  /\ cancelled' = FALSE
  /\ UNCHANGED <<now, envVars, reqVars, schedVars, spawnVars, wg, workerVars, monVars,
                 availVars, writeMu, ledgerVars, eventVars,
                 raceVars, trace>>

\* A send of the orchestrator completes: sendMessage("Starting ..."),
\* sendError("Failed to extract claimable time") and return, or the
\* sendMessage before the bot's own time.Sleep.
BotSendEnd ==
  /\ hpc \in {"bwInfo", "bwErr", "bwSched"}
  /\ botMu' = Free
  /\ nError' = IF hpc = "bwErr" THEN nError + 1 ELSE nError
  /\ hpc' = CASE hpc = "bwInfo" -> "spawn"
              [] hpc = "bwErr" -> "returned"
              [] OTHER -> "botSleep"
  /\ connClosed' = (hpc = "bwErr")
  /\ wakeAt' = IF hpc = "bwSched" THEN now + WaitDuration(claimableAt, now) ELSE wakeAt
  /\ slept' = IF hpc = "bwSched" THEN TRUE ELSE slept
  /\ UNCHANGED <<now, envVars, reqVars, spawnVars, wg, cancelled, workerVars, monVars,
                 availVars, writeMu, ledgerVars, nNoAction, nSuccessAttempt,
                 raceVars, trace>>

\* Fault variant of WorkerId: every go statement is handed the same id.
WorkerIdShared(i) == 0

\* The id the i-th go statement hands to aggressiveClaim: go func(id int){...}(i)
WorkerId(i) == i

\* Number of claim goroutines the loop launches: for i := 0; i < 5; i++
FanOut == NumWorkers

\* One iteration of the fan-out loop: wg.Add(1); go aggressiveClaim(id).
SpawnWorker ==
  /\ hpc = "spawn"
  /\ spawnI < FanOut
  /\ LET id == WorkerId(spawnI) IN
       /\ wg' = wg + 1
       /\ spawned' = Append(spawned, id)
       /\ workers' = workers (+) SetToBag({WorkerState("top", 1, "none")})
  /\ spawnI' = spawnI + 1
  /\ UNCHANGED <<now, envVars, hpc, reqVars, schedVars, monitors, cancelled, monVars,
                 availVars, writeMu, botMu, connClosed, ledgerVars, eventVars,
                 raceVars, trace>>

\* Fault variant of MonitorAdd: the monitor is launched without wg.Add.
MonitorAddMissing(n) == n

\* wg.Add(1) for the relay monitor, on a counter at n.
MonitorAdd(n) == n + 1

\* After the loop: wg.Add(1); go the relay monitor; then wg.Wait().
SpawnMonitor ==
  /\ hpc = "spawn"
  /\ spawnI >= FanOut
  /\ wg' = MonitorAdd(wg)
  /\ monitors' = monitors + 1
  /\ mpc' = IF variant = "continuous" THEN "hello" ELSE "top"
  /\ hpc' = "wait"
  /\ UNCHANGED <<now, envVars, reqVars, schedVars, spawnI, spawned, cancelled, workerVars,
                 mtext, availVars, writeMu, botMu, connClosed, ledgerVars, eventVars,
                 raceVars, trace>>

\* wg.Wait() returns: StartAggressiveBot has returned.
Join ==
  /\ hpc = "wait"
  /\ wg = 0
  /\ hpc' = "joined"
  /\ UNCHANGED <<now, envVars, reqVars, schedVars, spawnVars, wg, cancelled, workerVars,
                 monVars, availVars, writeMu, botMu, connClosed, ledgerVars, eventVars,
                 raceVars, trace>>

\* handleLockedBalance and Withdraw return; the deferred conn.Close() runs.
WithdrawReturn ==
  /\ hpc = "joined"
  /\ hpc' = "returned"
  /\ connClosed' = TRUE
  /\ UNCHANGED <<now, envVars, reqVars, schedVars, spawnVars, wg, cancelled, workerVars,
                 monVars, availVars, writeMu, botMu, ledgerVars, eventVars,
                 raceVars, trace>>

(* --------------------------- claim worker ------------------------------- *)
\* Fault variant of AttemptSuccess: every attempt event carries success.
AttemptSuccessAlways(err) == TRUE

\* sendAttemptLog: success := err == nil
AttemptSuccess(err) == err = "nil"

\* Fault variant of AttemptEvent: the attempt number counted from zero.
AttemptEventZeroBased(id, attempt, err) ==
  [action |-> "attempt", attempt_number |-> attempt - 1, id |-> id, success |-> err = "nil"]

\* The WithdrawResponse sendAttemptLog writes: the attempt number, the
\* goroutine id (in Message, "G%d: ...") and the success flag.
AttemptEvent(id, attempt, err) ==
  [action |-> "attempt", attempt_number |-> attempt, id |-> id, success |-> AttemptSuccess(err)]

\* The WithdrawResponse sendSuccess writes: no attempt number, no id.
SuccessEvent == [action |-> "success", attempt_number |-> 0, id |-> NoWorker, success |-> TRUE]

NoEvent == [action |-> "", attempt_number |-> 0, id |-> NoWorker, success |-> FALSE]

\* One entry of the observed goroutine's trace: a submission started
\* ("submit"), its return with err ("return"), an event written ("write");
\* signalled records whether cb.ctx was done at that moment.
Entry(kind, attempt, err, event) ==
  [kind |-> kind, attempt |-> attempt, err |-> err, event |-> event, signalled |-> cancelled]

\* Only the goroutine under observation is traced.
Observe(entry) == trace' = IF wid \in Workers THEN Append(trace, entry) ELSE trace

\* Fault variant of PassesCheckpoint: cb.ctx is never looked at.
PassesCheckpointAlways(done) == TRUE

\* The checkpoint at the top of the loops of the claim worker and of the
\* relay monitor: whether the goroutine goes on to its wallet call.
\*   select { case <-cb.ctx.Done(): return; default: }
PassesCheckpoint(done) == ~done

\* One worker leaves state s for state t.
Step(s, t) == workers' = (workers (-) SetToBag({s})) (+) SetToBag({t})

\* Loop top of aggressiveClaim: the checkpoint, then the submission starts
\* (ClaimBalanceWithSponsor or WithdrawClaimableBalance).
WorkerTop(s) ==
  /\ s.pc = "top"
  /\ IF PassesCheckpoint(cancelled)
       THEN /\ Step(s, WorkerState("call", s.attempt, "none"))
            /\ wg' = wg
            /\ Observe(Entry("submit", s.attempt, "none", NoEvent))
       ELSE /\ Step(s, WorkerState("cancelled", s.attempt, "none"))
            /\ wg' = wg - 1
            /\ UNCHANGED trace
  /\ UNCHANGED <<now, envVars, hpc, reqVars, schedVars, spawnVars, cancelled, monVars,
                 availVars, writeMu, botMu, connClosed, ledgerVars, eventVars,
                 raceVars>>

\* The submission returns.  The ledger accepts a claim of the balance at
\* most once and may reject any submission.  The worker then takes
\* cb.mutex and enters conn.WriteJSON of sendAttemptLog.
WorkerCall(s) ==
  /\ s.pc = "call"
  /\ botMu = Free
  /\ \E ok \in BOOLEAN :
       /\ ok => ~claimed
       /\ claimed' = (claimed \/ ok)
       /\ funds' = IF ok THEN 1 ELSE funds
       /\ Step(s, WorkerState("wlog", s.attempt, IF ok THEN "nil" ELSE "err"))
       /\ Observe(Entry("return", s.attempt, IF ok THEN "nil" ELSE "err", NoEvent))
  /\ botMu' = Claimer
  /\ UNCHANGED <<now, envVars, hpc, reqVars, schedVars, spawnVars, wg, cancelled, monVars,
                 availVars, writeMu, connClosed, eventVars,
                 raceVars>>

\* Fault variants of AfterAttemptLog: no return after a success; a failed
\* submission that ends the race (the worker calls cb.cancel() and
\* returns); a failed submission that ends the worker; a success that is
\* signalled without its success event; a loop that ends one attempt early.
AfterAttemptLogRetries(err, attempt) == IF attempt < maxAttempts THEN "top" ELSE "exhausted"
AfterAttemptLogGivesUp(err, attempt) == IF err = "nil" THEN "succ" ELSE "exhausted"
AfterAttemptLogSignalsFirst(err, attempt) ==
  IF err = "nil" THEN "cancel" ELSE IF attempt < maxAttempts THEN "top" ELSE "exhausted"
AfterAttemptLogAborts(err, attempt) == IF err = "nil" THEN "succ" ELSE "cancel"
AfterAttemptLogOffByOne(err, attempt) ==
  IF err = "nil" THEN "succ" ELSE IF attempt + 1 < maxAttempts THEN "top" ELSE "exhausted"

\* Where aggressiveClaim goes after sendAttemptLog: on err == nil to
\* sendSuccess, cb.cancel() and return; otherwise it sleeps 50 + 10*attempt
\* ms and loops (attempt++), or leaves the loop after attempt maxAttempts.
AfterAttemptLog(err, attempt) ==
  IF err = "nil" THEN "succ" ELSE IF attempt < maxAttempts THEN "top" ELSE "exhausted"

\* Fault variant of NextAttempt: the loop variable advances by two.
NextAttemptSkips(n) == n + 2

\* attempt++ of `for attempt := 1; attempt <= maxAttempts; attempt++`
NextAttempt(n) == n + 1

\* The attempt event is written.
WorkerLogEnd(s) ==
  /\ s.pc = "wlog"
  /\ botMu' = Free
  /\ nSuccessAttempt' = IF AttemptSuccess(s.err) THEN nSuccessAttempt + 1 ELSE nSuccessAttempt
  /\ nAttempt' = nAttempt + 1
  /\ Observe(Entry("write", s.attempt, s.err, AttemptEvent(wid, s.attempt, s.err)))
  /\ LET nxt == AfterAttemptLog(s.err, s.attempt) IN
       /\ Step(s, WorkerState(nxt, IF nxt = "top" THEN NextAttempt(s.attempt) ELSE s.attempt,
                                 "none"))
       /\ wg' = IF nxt = "exhausted" THEN wg - 1 ELSE wg
  /\ UNCHANGED <<now, envVars, hpc, reqVars, schedVars, spawnVars, cancelled, monVars,
                 availVars, writeMu, connClosed, ledgerVars, nError, nNoAction,
                 nWorkerSuccess, nRelayed>>

\* sendSuccess: take cb.mutex, enter conn.WriteJSON.
WorkerSuccess(s) ==
  /\ s.pc = "succ"
  /\ botMu = Free
  /\ botMu' = Claimer
  /\ Step(s, WorkerState("wsucc", s.attempt, "none"))
  /\ UNCHANGED <<now, envVars, hpc, reqVars, schedVars, spawnVars, wg, cancelled, monVars,
                 availVars, writeMu, connClosed, ledgerVars, eventVars,
                 raceVars, trace>>

\* The success event is written.
WorkerSuccessEnd(s) ==
  /\ s.pc = "wsucc"
  /\ botMu' = Free
  /\ Step(s, WorkerState("cancel", s.attempt, "none"))
  /\ nWorkerSuccess' = nWorkerSuccess + 1
  /\ Observe(Entry("write", s.attempt, "nil", SuccessEvent))
  /\ UNCHANGED <<now, envVars, hpc, reqVars, schedVars, spawnVars, wg, cancelled, monVars,
                 availVars, writeMu, connClosed, ledgerVars, nError, nNoAction,
                 nSuccessAttempt,
                 nAttempt, nRelayed>>

\* Fault variant of Cancel: a signal on a token that is already done
\* takes the signal back.
CancelToggles(done) == ~done

\* cb.cancel, the CancelFunc of context.WithCancel(context.Background()):
\* the state of cb.ctx after a call, given whether it was done before.  The
\* first call closes Done(); later calls do nothing.
Cancel(done) == TRUE

\* cb.cancel(); return
WorkerCancel(s) ==
  /\ s.pc = "cancel"
  /\ cancelled' = Cancel(cancelled)
  /\ Step(s, WorkerState("succeeded", s.attempt, "none"))
  /\ wg' = wg - 1
  /\ UNCHANGED <<now, envVars, hpc, reqVars, schedVars, spawnVars, monVars, availVars,
                 writeMu, botMu, connClosed, ledgerVars, eventVars,
                 raceVars, trace>>

WorkerTerminal == {"succeeded", "exhausted", "cancelled"}

(* --------------------------- relay monitor ------------------------------ *)
\* continuousTransferMonitor announces itself before its loop.
MonitorHello ==
  /\ mpc = "hello"
  /\ botMu = Free
  /\ botMu' = Mon
  /\ mpc' = "wHello"
  /\ UNCHANGED <<now, envVars, hpc, reqVars, schedVars, spawnVars, wg, cancelled, workerVars,
                 mtext, availVars, writeMu, connClosed, ledgerVars, eventVars,
                 raceVars, trace>>

\* Loop top: prepareTransfer leaves when its 30 s are over (any loop top can
\* be the one that finds them over); both monitors leave on cb.ctx.Done();
\* otherwise the balance query starts.
MonitorTop ==
  /\ mpc = "top"
  /\ \E timeUp \in BOOLEAN :
       /\ timeUp => (variant = "timed")
       /\ mpc' = IF timeUp THEN "timedout"
                 ELSE IF PassesCheckpoint(cancelled) THEN "query" ELSE "cancelled"
       /\ wg' = IF timeUp \/ ~PassesCheckpoint(cancelled) THEN wg - 1 ELSE wg
  /\ UNCHANGED <<now, envVars, hpc, reqVars, schedVars, spawnVars, cancelled, workerVars,
                 mtext, availVars, writeMu, botMu, connClosed, ledgerVars, eventVars,
                 raceVars, trace>>

\* The test that guards the transfer: prepareTransfer compares with "0",
\* continuousTransferMonitor with "0" and "0.00".
WantsTransfer(v, text) ==
  IF v = "timed" THEN text # "0" ELSE (text # "0" /\ text # "0.00")

\* GetAvailableBalance returns; a balance that passes the test starts
\* TransferWithFee, anything else sleeps and loops.
MonitorQuery ==
  /\ mpc = "query"
  /\ \E text \in BalanceTexts(funds) \cup {"err"} :
       IF text # "err" /\ WantsTransfer(variant, text)
         THEN /\ mpc' = "transfer"
              /\ mtext' = text
         ELSE /\ mpc' = "top"
              /\ UNCHANGED mtext
  /\ UNCHANGED <<now, envVars, hpc, reqVars, schedVars, spawnVars, wg, cancelled, workerVars,
                 availVars, writeMu, botMu, connClosed, ledgerVars, eventVars,
                 raceVars, trace>>

\* TransferWithFee returns.  The ledger moves funds only when there are
\* some and may reject any submission.  Success is reported by sendSuccess;
\* a failure is reported ("Transfer retry") by the continuous build only.
MonitorTransfer ==
  /\ mpc = "transfer"
  /\ \E ok \in BOOLEAN :
       LET nxt == IF ok THEN "wSucc" ELSE IF variant = "continuous" THEN "wRetry" ELSE "top" IN
         /\ ok => funds > 0
         /\ (nxt # "top") => (botMu = Free)
         /\ funds' = IF ok THEN 0 ELSE funds
         /\ mpc' = nxt
         /\ botMu' = IF nxt # "top" THEN Mon ELSE botMu
  /\ mtext' = ""
  /\ UNCHANGED <<now, envVars, hpc, reqVars, schedVars, spawnVars, wg, cancelled, workerVars,
                 availVars, writeMu, connClosed, claimed, eventVars,
                 raceVars, trace>>

\* Fault variant of AfterMonitorSend: the monitor goes on polling after
\* its success event.
AfterMonitorSendLoops(pc) == "top"

\* Where the monitor goes after a send: sendSuccess is followed by return,
\* the sendMessage calls by the loop.
AfterMonitorSend(pc) == IF pc = "wSucc" THEN "relayed" ELSE "top"

\* A send of the monitor completes.
MonitorSendEnd ==
  /\ mpc \in {"wHello", "wRetry", "wSucc"}
  /\ botMu' = Free
  /\ mpc' = AfterMonitorSend(mpc)
  /\ nRelayed' = IF mpc = "wSucc" THEN nRelayed + 1 ELSE nRelayed
  /\ wg' = IF mpc = "wSucc" THEN wg - 1 ELSE wg
  /\ UNCHANGED <<now, envVars, hpc, reqVars, schedVars, spawnVars, cancelled, workerVars,
                 mtext, availVars, writeMu, connClosed, ledgerVars, nError, nNoAction,
                 nSuccessAttempt,
                 nAttempt, nWorkerSuccess, trace>>

MonitorTerminal == {"relayed", "cancelled", "timedout"}

(* --------------------- handleAvailableBalance --------------------------- *)
\* GetAvailableBalance returns: an error is reported, "0" ends the
\* goroutine, anything else starts TransferWithFee.
AvailableQuery ==
  /\ apc = "query"
  /\ \E text \in BalanceTexts(funds) \cup {"err"} :
       /\ (text = "err") => (writeMu = "free")
       /\ apc' = IF text = "err" THEN "write" ELSE IF text # "0" THEN "transfer" ELSE "done"
       /\ aout' = IF text = "err" THEN "available_balance_error" ELSE aout
       /\ writeMu' = IF text = "err" THEN "avail" ELSE writeMu
  /\ UNCHANGED <<now, envVars, hpc, reqVars, schedVars, spawnVars, wg, cancelled, workerVars,
                 monVars, botMu, connClosed, ledgerVars, eventVars,
                 raceVars, trace>>

\* Fault variant of TransferAction: a failed transfer is reported as
\* "waiting".
TransferActionWaiting(ok) == IF ok THEN "available_transferred" ELSE "waiting"

\* The Action of the event handleAvailableBalance writes after
\* TransferWithFee: err == nil or not.
TransferAction(ok) == IF ok THEN "available_transferred" ELSE "available_transfer_failed"

\* TransferWithFee returns; the outcome is reported through sendResponse.
AvailableTransfer ==
  /\ apc = "transfer"
  /\ writeMu = "free"
  /\ \E ok \in BOOLEAN :
       /\ ok => funds > 0
       /\ funds' = IF ok THEN 0 ELSE funds
       /\ aout' = TransferAction(ok)
  /\ writeMu' = "avail"
  /\ apc' = "write"
  /\ UNCHANGED <<now, envVars, hpc, reqVars, schedVars, spawnVars, wg, cancelled, workerVars,
                 monVars, botMu, connClosed, claimed, eventVars,
                 raceVars, trace>>

\* The event of handleAvailableBalance is written.
AvailableSendEnd ==
  /\ apc = "write"
  /\ writeMu' = "free"
  /\ apc' = "done"
  /\ aout' = ""
  /\ UNCHANGED <<now, envVars, hpc, reqVars, schedVars, spawnVars, wg, cancelled, workerVars,
                 monVars, botMu, connClosed, ledgerVars, nError, nNoAction,
                 nSuccessAttempt,
                 raceVars, trace>>

(* --------------------------- specifications ----------------------------- *)
HandlerNext ==
  \/ Withdraw
  \/ HandleLockedBalance
  \/ HandlerErrorEnd
  \/ ScheduleAggressiveBot
  \/ Wake
  \/ Tick
  \/ StartAggressiveBot
  \/ BotSendEnd
  \/ SpawnWorker
  \/ SpawnMonitor
  \/ AvailableQuery
  \/ AvailableTransfer
  \/ AvailableSendEnd

Next ==
  \/ HandlerNext
  \/ Join
  \/ WithdrawReturn
  \/ \E s \in BagToSet(workers) :
       \/ WorkerTop(s)
       \/ WorkerCall(s)
       \/ WorkerLogEnd(s)
       \/ WorkerSuccess(s)
       \/ WorkerSuccessEnd(s)
       \/ WorkerCancel(s)
  \/ MonitorHello
  \/ MonitorTop
  \/ MonitorQuery
  \/ MonitorTransfer
  \/ MonitorSendEnd

Spec == Init /\ [][Next]_vars

\* The scheduler up to the fan-out, on every claimant list.
SpecSched == InitSched /\ [][HandlerNext]_vars

\* One call of the resolver.
Resolve ==
  /\ hpc = "resolver"
  /\ ~res.called
  /\ res' = [called |-> TRUE, out |-> ExtractClaimableTime(p)]
  /\ UNCHANGED <<now, variant, request, resource, wid, p, feeVars, backoffVars, hpc, reqVars, schedVars, spawnVars, wg,
                 cancelled, workerVars, monVars, availVars, writeMu, botMu, connClosed,
                 ledgerVars, eventVars,
                 raceVars, trace>>

SpecResolve == InitResolve /\ [][Resolve]_vars

(* ------------------- one claim worker, observed ------------------------- *)
\* One aggressiveClaim goroutine, launched with id wid, with the rest of the
\* session as its environment: the other goroutines of the bot, of which it
\* sees the ledger (the balance claimed by somebody else) and cb.ctx.
InitWorker ==
  /\ wid \in Workers
  /\ now = StartClock
  /\ variant \in {"timed", "continuous"}
  /\ request = "ok"
  /\ resource = <<Claimant("main", Uncond)>>
  /\ balance = resource
  /\ claimableAt = Epoch
  /\ unlockPast = "yes"
  /\ wakeAt = Epoch
  /\ slept = FALSE
  /\ hpc = "spawn"
  /\ spawnI = WorkerId(wid) + 1
  /\ spawned = <<>>
  /\ monitors = 0
  /\ wg = 1
  /\ cancelled = FALSE
  /\ workers = SetToBag({WorkerState("top", 1, "none")})
  /\ trace = <<>>
  /\ mpc = "idle"
  /\ mtext = ""
  /\ apc = "done"
  /\ aout = ""
  /\ writeMu = "free"
  /\ botMu = Free
  /\ connClosed = FALSE
  /\ claimed = FALSE
  /\ funds \in {0, 1}
  /\ nError = 0
  /\ nNoAction = 0
  /\ nSuccessAttempt = 0
  /\ nAttempt = 0
  /\ nWorkerSuccess = 0
  /\ nRelayed = 0
  /\ p = Nil
  /\ res = NotCalled
  /\ sponsored = FALSE
  /\ fpc = "idle"
  /\ tx = NoTx
  /\ subs = <<>>
  /\ bn = 0
  /\ bprev = 0
  /\ bsleep = 0

\* Another worker's submission is accepted by the ledger.
OtherClaims ==
  /\ ~claimed
  /\ claimed' = TRUE
  /\ funds' = 1
  /\ UNCHANGED <<now, envVars, hpc, reqVars, schedVars, spawnVars, wg, cancelled, workerVars,
                 monVars, availVars, writeMu, botMu, connClosed, eventVars, raceVars, trace>>

\* Another worker, whose submission was accepted, calls cb.cancel().
OtherCancels ==
  /\ claimed
  /\ ~cancelled
  /\ cancelled' = Cancel(cancelled)
  /\ UNCHANGED <<now, envVars, hpc, reqVars, schedVars, spawnVars, wg, workerVars,
                 monVars, availVars, writeMu, botMu, connClosed, ledgerVars, eventVars,
                 raceVars, trace>>

WorkerNext ==
  \/ \E s \in BagToSet(workers) :
       \/ WorkerTop(s)
       \/ WorkerCall(s)
       \/ WorkerLogEnd(s)
       \/ WorkerSuccess(s)
       \/ WorkerSuccessEnd(s)
       \/ WorkerCancel(s)
  \/ OtherClaims
  \/ OtherCancels

SpecWorker == InitWorker /\ [][WorkerNext]_vars

(* ---------------------- one worker's submissions ----------------------- *)
\* var competitiveFees = []int64{...}
competitiveFees == <<3200000, 9400000, 5000000, 7500000, 12000000>>

\* Fault variant of GetCompetitiveFee: the network-flood fee is returned.
GetCompetitiveFeeFlood(i) == 15000000

\* GetCompetitiveFee: competitiveFees[rand.Intn(len(competitiveFees))], for
\* the index i the generator returns (reseeded from the clock at each call:
\* any index).
GetCompetitiveFee(i) == competitiveFees[i]

\* Source account of the claim transaction: ClaimBalanceWithSponsor builds
\* on sponsorAccount, WithdrawClaimableBalance on the account of kp.
ClaimSource(withSponsor) == IF withSponsor THEN "sponsor" ELSE "main"

\* Keys the claim transaction is signed with: tx.Sign(passphrase,
\* sponsorKp, mainKp) or tx.Sign(passphrase, kp).
ClaimSigners(withSponsor) == IF withSponsor THEN {"sponsor", "main"} ELSE {"main"}

sessionVars == <<now, variant, request, resource, wid, p, res, hpc, reqVars, schedVars,
                 spawnVars, wg, cancelled, workerVars, monVars, availVars, writeMu, botMu,
                 connClosed, ledgerVars, eventVars, raceVars, trace>>

\* The session as one aggressiveClaim goroutine finds it when it is looked
\* at alone: the fan-out done, the other actors not followed.
SessionIdle ==
  /\ now = StartClock
  /\ variant \in {"timed", "continuous"}
  /\ request = "ok"
  /\ resource = <<Claimant("main", Uncond)>>
  /\ balance = resource
  /\ claimableAt = Epoch
  /\ unlockPast = "yes"
  /\ wakeAt = Epoch
  /\ slept = FALSE
  /\ hpc = "wait"
  /\ spawnI = NumWorkers
  /\ spawned = <<>>
  /\ monitors = 0
  /\ wg = 1
  /\ cancelled = FALSE
  /\ workers = EmptyBag
  /\ trace = <<>>
  /\ mpc = "idle"
  /\ mtext = ""
  /\ apc = "done"
  /\ aout = ""
  /\ writeMu = "free"
  /\ botMu = Free
  /\ connClosed = FALSE
  /\ claimed = FALSE
  /\ funds = 0
  /\ nError = 0
  /\ nNoAction = 0
  /\ nSuccessAttempt = 0
  /\ nAttempt = 0
  /\ nWorkerSuccess = 0
  /\ nRelayed = 0
  /\ wid = NoWorker
  /\ p = Nil
  /\ res = NotCalled

\* The submissions of one aggressiveClaim goroutine, with or without a
\* sponsor key pair, each followed down to SubmitTransaction.
InitFee ==
  /\ SessionIdle
  /\ sponsored \in BOOLEAN
  /\ fpc = "top"
  /\ tx = NoTx
  /\ subs = <<>>
  /\ bn = 0
  /\ bprev = 0
  /\ bsleep = 0

\* aggressiveClaim selects the call: with a sponsor it draws the fee and
\* passes it to ClaimBalanceWithSponsor, without one it calls
\* WithdrawClaimableBalance, which has no fee parameter.
ClaimSelect ==
  /\ fpc = "top"
  /\ IF sponsored
       THEN \E i \in DOMAIN competitiveFees :
              /\ tx' = [NoTx EXCEPT !.fee = GetCompetitiveFee(i)]
              /\ fpc' = "build"
       ELSE /\ tx' = NoTx
            /\ fpc' = "ownFee"
  /\ UNCHANGED <<sessionVars, backoffVars, sponsored, subs>>

\* WithdrawClaimableBalance: fee := util.GetCompetitiveFee()
WithdrawFee ==
  /\ fpc = "ownFee"
  /\ \E i \in DOMAIN competitiveFees : tx' = [tx EXCEPT !.fee = GetCompetitiveFee(i)]
  /\ fpc' = "build"
  /\ UNCHANGED <<sessionVars, backoffVars, sponsored, subs>>

\* txnbuild.NewTransaction with SourceAccount and BaseFee: fee
ClaimBuild ==
  /\ fpc = "build"
  /\ tx' = [tx EXCEPT !.source = ClaimSource(sponsored)]
  /\ fpc' = "sign"
  /\ UNCHANGED <<sessionVars, backoffVars, sponsored, subs>>

\* tx.Sign
ClaimSign ==
  /\ fpc = "sign"
  /\ tx' = [tx EXCEPT !.signers = ClaimSigners(sponsored)]
  /\ fpc' = "submit"
  /\ UNCHANGED <<sessionVars, backoffVars, sponsored, subs>>

\* w.client.SubmitTransaction(tx) returns; the worker goes on to its next
\* attempt after an error, while it has attempts left.
ClaimSubmit ==
  /\ fpc = "submit"
  /\ subs' = Append(subs, tx)
  /\ \E ok \in BOOLEAN :
       fpc' = IF ~ok /\ Len(subs') < maxAttempts THEN "top" ELSE "done"
  /\ UNCHANGED <<sessionVars, backoffVars, sponsored, tx>>

FeeNext ==
  \/ ClaimSelect
  \/ WithdrawFee
  \/ ClaimBuild
  \/ ClaimSign
  \/ ClaimSubmit

SpecFee == InitFee /\ [][FeeNext]_vars

(* ------------------------ one worker's backoff -------------------------- *)
\* maxAttempts := 200
AttemptBudget == 200

\* Fault variant of SleepDuration: the delay is capped at one second.
SleepDurationCapped(attempt) == IF 50 + attempt * 10 > 1000 THEN 1000 ELSE 50 + attempt * 10

\* sleepDuration := time.Duration(50+attempt*10) * time.Millisecond, in
\* milliseconds (an int64 of nanoseconds in the code: no overflow for
\* attempt <= 200).
SleepDuration(attempt) == 50 + attempt * 10

\* The retry path of aggressiveClaim with the attempt budget of the code:
\* every submission fails and cb.ctx is never done.
InitBackoff ==
  /\ SessionIdle
  /\ sponsored = FALSE
  /\ fpc = "idle"
  /\ tx = NoTx
  /\ subs = <<>>
  /\ bn = 1
  /\ bprev = 0
  /\ bsleep = 0

\* time.Sleep(sleepDuration) after the failed attempt bn
BackoffSleep ==
  /\ bsleep = 0
  /\ bsleep' = SleepDuration(bn)
  /\ UNCHANGED <<sessionVars, feeVars, bn, bprev>>

\* attempt++; attempt <= maxAttempts: the next attempt (fails and) is about
\* to sleep
BackoffLoop ==
  /\ bsleep # 0
  /\ bn < AttemptBudget
  /\ bn' = bn + 1
  /\ bprev' = bsleep
  /\ bsleep' = 0
  /\ UNCHANGED <<sessionVars, feeVars>>

BackoffNext ==
  \/ BackoffSleep
  \/ BackoffLoop

SpecBackoff == InitBackoff /\ [][BackoffNext]_vars

(* ------------------------- fair scheduling ------------------------------ *)
\* Steps of the goroutines of the bot.  The Go scheduler runs every
\* runnable goroutine, every wallet call returns, and a goroutine blocked
\* on cb.mutex gets it once it stays free.
WorkerStep ==
  \E s \in BagToSet(workers) :
    \/ WorkerTop(s)
    \/ WorkerCall(s)
    \/ WorkerLogEnd(s)
    \/ WorkerSuccess(s)
    \/ WorkerSuccessEnd(s)
    \/ WorkerCancel(s)

MonitorStep ==
  \/ MonitorHello
  \/ MonitorTop
  \/ MonitorQuery
  \/ MonitorTransfer
  \/ MonitorSendEnd

\* prepareTransfer finds time.Since(startTime) >= maxWait at a loop top: the
\* wall clock advances by at least 100 ms per iteration, so a monitor that
\* keeps coming to the loop top does not miss its 30 s forever.
MonitorTimeUp == MonitorTop /\ mpc' = "timedout"

\* The goroutine that runs Withdraw, down to StartAggressiveBot.
HandlerStep ==
  \/ Withdraw
  \/ HandleLockedBalance
  \/ HandlerErrorEnd
  \/ ScheduleAggressiveBot
  \/ Wake
  \/ StartAggressiveBot
  \/ BotSendEnd
  \/ SpawnWorker
  \/ SpawnMonitor
  \/ Join
  \/ WithdrawReturn

AvailableStep ==
  \/ AvailableQuery
  \/ AvailableTransfer
  \/ AvailableSendEnd

Fairness ==
  /\ WF_vars(HandlerStep)
  /\ WF_vars(AvailableStep)
  /\ WF_vars(Tick)
  /\ WF_vars(WorkerStep)
  /\ WF_vars(MonitorStep)
  /\ SF_vars(MonitorTimeUp)

\* The session from handleLockedBalance on, for a balance that is due, in
\* the case where the handleAvailableBalance goroutine has already finished
\* (with or without having moved the spendable funds away).
InitBot ==
  /\ InitCommon
  /\ wid = NoWorker
  /\ apc = "done"
  /\ variant \in {"timed", "continuous"}
  /\ request = "ok"
  /\ resource = <<Claimant("main", Uncond)>>
  /\ funds \in {0, 1}
  /\ p = Nil
  /\ res = NotCalled
  /\ hpc = "lookup"

BotNext ==
  \/ HandleLockedBalance
  \/ HandlerErrorEnd
  \/ StartAggressiveBot
  \/ BotSendEnd
  \/ SpawnWorker
  \/ SpawnMonitor
  \/ Join
  \/ WithdrawReturn
  \/ Tick
  \/ WorkerStep
  \/ MonitorStep

SpecBot == InitBot /\ [][BotNext]_vars /\ Fairness

(* ------------------------------ helpers --------------------------------- *)
\* number of workers at position pc
PcCount(pc) == CopiesIn(pc, BagOfAll(LAMBDA s : s.pc, workers))

\* the fan-out has started / is complete
Racing == workers # EmptyBag
FannedOut == monitors > 0

\* StartAggressiveBot has returned from its wg.Wait()
StartReturned == hpc = "joined" \/ (hpc = "returned" /\ FannedOut)

\* network calls of the bot's actors that are in flight
CallsInFlight == PcCount("call") + (IF mpc \in {"query", "transfer"} THEN 1 ELSE 0)

(* ------------------------------- C1 ------------------------------------- *)
\* C1: with a ledger that lets at most one claim submission succeed, at
\* most one attempt event with success = true is written, whatever the
\* interleaving of the five workers.
C1_AtMostOneSuccessAttempt == nSuccessAttempt <= 1

\* One worker has reported its success while another has used up its budget
\* on rejected submissions.
C1_Witness == nSuccessAttempt = 1 /\ PcCount("exhausted") > 0 /\ PcCount("succeeded") = 1

(* ------------------------------- C2 ------------------------------------- *)
\* C2: once the cancellation token is signalled, no claim worker and no
\* relay monitor starts a network call (claim submission, balance query,
\* transfer submission); calls in flight may complete.
C2_NoCallStartsOnceCancelled ==
  [][cancelled =>
       /\ PcCount("call")' <= PcCount("call")
       /\ (mpc' = "query" => mpc = "query")
       /\ (mpc' = "transfer" => mpc = "transfer")]_vars

(* ------------------------------- C3 ------------------------------------- *)
\* C3: at most one write to the observer connection is in progress at any
\* time, over all emitters of the session (handler, available-balance
\* goroutine, orchestrator, claim workers, relay monitor).
C3_SingleWriter == ~(writeMu # "free" /\ botMu # Free)

(* ------------------------------- C4 ------------------------------------- *)
\* C4: in every state where StartAggressiveBot has returned, the five claim
\* workers and the relay monitor are all in a terminal state (so none
\* dispatches an attempt any more).
C4_JoinedAllTerminal ==
  StartReturned =>
    /\ BagCardinality(workers) = NumWorkers
    /\ \A s \in BagToSet(workers) : s.pc \in WorkerTerminal
    /\ mpc \in MonitorTerminal
    /\ CallsInFlight = 0

\* Start has returned from a race that one worker won while the monitor
\* ended on the token or on a transfer.
C4_Witness == hpc = "joined" /\ PcCount("succeeded") = 1 /\ mpc \in {"cancelled", "relayed"}

(* ------------------------------- C5 ------------------------------------- *)
\* C5: a call of StartAggressiveBot that reaches the fan-out launches
\* exactly 5 claim workers, with the pairwise distinct ids 0..4, on the one
\* bot (one resource id), and exactly one relay monitor.
C5_FanOutExact ==
  /\ monitors <= 1
  /\ Len(spawned) <= NumWorkers
  /\ BagCardinality(workers) = Len(spawned)
  /\ \A i, j \in DOMAIN spawned : i # j => spawned[i] # spawned[j]
  /\ FannedOut =>
       /\ Len(spawned) = NumWorkers
       /\ {spawned[i] : i \in DOMAIN spawned} = Workers
       /\ monitors = 1

\* The fan-out is complete and all six actors are still running.
C5_Witness ==
  /\ hpc = "wait"
  /\ Len(spawned) = NumWorkers
  /\ \A s \in BagToSet(workers) : s.pc \notin WorkerTerminal
  /\ mpc \notin MonitorTerminal

(* ------------------------------- C6 ------------------------------------- *)
\* C6: ExtractClaimableTime returns (t, true) for NOT(BEFORE_ABSOLUTE_TIME(t)),
\* (epoch, true) for UNCONDITIONAL, and (_, false) for every other shape:
\* AND, OR, bare BEFORE_ABSOLUTE_TIME, BEFORE_RELATIVE_TIME, NOT of a
\* predicate other than BEFORE_ABSOLUTE_TIME.
C6_ResolverContract ==
  res.called =>
    IF p.type = "NOT" /\ p.inner.type = "BEFORE_ABSOLUTE_TIME"
      THEN res.out = [time |-> p.inner.abs, ok |-> TRUE, fault |-> FALSE]
    ELSE IF p.type = "UNCONDITIONAL"
      THEN res.out = [time |-> Epoch, ok |-> TRUE, fault |-> FALSE]
    ELSE IF p.type = "NOT" /\ p.inner.type = "nil"
      THEN TRUE
    ELSE ~res.out.ok /\ ~res.out.fault

\* The resolver has been called on UNCONDITIONAL.
C6_Witness == res.called /\ p = Uncond /\ res.out.ok

(* ------------------------------- C7 ------------------------------------- *)
\* C7: when the resolved unlock instant is already in the past when the
\* request is handled (the UNCONDITIONAL case included), the handler
\* goroutine goes through no time.Sleep between resolving the instant and
\* dispatching the claim workers.
C7_PastUnlockNoSleep ==
  unlockPast = "yes" => (~slept /\ hpc \notin {"wSched", "sleep", "bwSched", "botSleep"})

\* The workers of an UNCONDITIONAL balance have been dispatched.
C7_Witness ==
  /\ unlockPast = "yes"
  /\ hpc = "wait"
  /\ SelectedClaimant(balance).pred = Uncond
  /\ BagCardinality(workers) = NumWorkers

C9_ConfigErrorOneErrorEvent ==
  (hpc = "returned" /\ ~FannedOut) =>
    (nError = 1 /\ workers = EmptyBag /\ ~claimed)

(* ------------------------------- C10 ------------------------------------ *)
\* C10: the unlock instant used for scheduling is the one resolved from the
\* claimant whose destination is the primary signer's address, wherever it
\* is in the list; without such a claimant the session ends in a
\* configuration error and no race.
C10_ResolvesOwnClaimant ==
  unlockPast # "unknown" =>
    \E i \in DOMAIN balance :
      /\ balance[i].dest = "main"
      /\ ExtractClaimableTime(balance[i].pred) = Resolved(claimableAt)

(* ------------------------------- C11 ------------------------------------ *)
\* C11: once the cancellation token is signalled, every claim worker and
\* the relay monitor eventually reach a terminal state and
\* StartAggressiveBot eventually returns (every call returns, scheduling is
\* fair).
C11_CancelLeadsToReturn ==
  cancelled ~>
    /\ StartReturned
    /\ \A s \in BagToSet(workers) : s.pc \in WorkerTerminal
    /\ mpc \in MonitorTerminal

\* The token is signalled while other workers and the monitor are still
\* running.
C11_Witness ==
  /\ cancelled
  /\ hpc = "wait"
  /\ PcCount("call") > 0
  /\ PcCount("top") > 0
  /\ mpc \in {"query", "transfer"}

(* ------------------------------- C12 ------------------------------------ *)
\* C12: when all 5 claim workers have used up their attempts without a
\* success and the spendable balance is and stays zero, the relay monitor
\* eventually terminates and StartAggressiveBot eventually returns.
C12_ExhaustedLeadsToReturn ==
  (PcCount("exhausted") = NumWorkers /\ funds = 0) ~>
    (StartReturned /\ mpc \in MonitorTerminal)

(* ------------------------------- C13 ------------------------------------ *)
\* C13: once the balance query has returned a nonzero value and the
\* transfer submission has succeeded, the relay monitor writes exactly one
\* success event and terminates: no balance query and no transfer
\* submission follows.
C13_RelayOnceThenStop ==
  /\ [](nRelayed = IF mpc = "relayed" THEN 1 ELSE 0)
  /\ [][(mpc = "transfer" /\ mpc' # "transfer" /\ funds' < funds) => mpc' = "wSucc"]_vars
  /\ [][mpc = "wSucc" => mpc' \in {"wSucc", "relayed"}]_vars
  /\ [][mpc = "relayed" => mpc' = "relayed"]_vars

\* The monitor has relayed while claim workers are still racing.
C13_Witness ==
  /\ mpc = "relayed"
  /\ nRelayed = 1
  /\ funds = 0
  /\ hpc = "wait"
  /\ PcCount("call") > 0

(* ------------------------------- C14 ------------------------------------ *)
\* C14: when the relay monitor's transfer submission has succeeded, the
\* monitor signals the cancellation token (so that the claim workers stop
\* at their next checkpoint).
C14_RelaySignalsCancel == mpc = "relayed" => cancelled

(* ------------------------------- C15 ------------------------------------ *)
\* C15: in a session where a claim attempt succeeds (the token is then
\* signalled) and the spendable balance becomes nonzero by it, the relay
\* monitor submits a transfer of that balance and reports it before the
\* session terminates.
C15_ClaimedBalanceIsRelayed ==
  (variant = "continuous" /\ StartReturned /\ PcCount("succeeded") > 0) => nRelayed = 1

(* --------------------- the observed worker's trace ---------------------- *)
\* positions of the trace where a submission starts, where an attempt event
\* is written, where one is written with cb.ctx done
SubmitAt == {i \in DOMAIN trace : trace[i].kind = "submit"}
AttemptAt == {i \in DOMAIN trace : trace[i].kind = "write" /\ trace[i].event.action = "attempt"}
AttemptAfterSignalAt == {i \in AttemptAt : trace[i].signalled}

\* position of the observed worker
ObservedPc(pc) == wid \in Workers /\ PcCount(pc) = 1

(* ------------------------------- C16 ------------------------------------ *)
\* C16: when a claim worker's submission has succeeded, the worker signals
\* the cancellation token and terminates: after the return of that
\* submission it starts no submission and writes no attempt event but the
\* report of that submission.
C16_SuccessEndsWorker ==
  \A i \in DOMAIN trace :
    (trace[i].kind = "return" /\ trace[i].err = "nil") =>
      /\ Len(trace) <= i + 2
      /\ \A j \in (i + 1) .. Len(trace) : trace[j].kind = "write"
      /\ (Len(trace) >= i + 1 =>
            trace[i + 1].event.action = "attempt"
              /\ trace[i + 1].event.attempt_number = trace[i].attempt)
      /\ (Len(trace) >= i + 2 => trace[i + 2].event = SuccessEvent)
      /\ \E pc \in {"wlog", "succ", "wsucc", "cancel", "succeeded"} : ObservedPc(pc)
      /\ (ObservedPc("succeeded") => (cancelled /\ Len(trace) = i + 2))

\* The worker has returned after a success on its second attempt.
C16_Witness ==
  /\ ObservedPc("succeeded")
  /\ cancelled
  /\ Cardinality(SubmitAt) = 2
  /\ trace[Len(trace)].event = SuccessEvent

(* ------------------------------- C17 ------------------------------------ *)
\* C17: a claim worker that finds the cancellation token set at the top of
\* its attempt loop terminates at once: it does not make the submission of
\* that attempt and writes no attempt event for it.
C17_CheckpointStopsWorker ==
  /\ [][(ObservedPc("top") /\ cancelled /\ workers' # workers) =>
          (ObservedPc("cancelled")' /\ trace' = trace /\ nAttempt' = nAttempt /\ wg' = wg - 1)]_vars
  /\ [][ObservedPc("cancelled") => (workers' = workers /\ trace' = trace)]_vars

\* The worker has stopped at the checkpoint of its second attempt.
C17_Witness ==
  /\ ObservedPc("cancelled")
  /\ Cardinality(SubmitAt) = 1
  /\ Cardinality(AttemptAt) = 1
  /\ wg = 0

(* ------------------------------- C18 ------------------------------------ *)
\* C18: after the cancellation token is signalled a claim worker writes at
\* most one more attempt event (the report of the call that had passed its
\* checkpoint); it never writes two attempt events that both follow the
\* signal.
C18_OneAttemptAfterSignal == Cardinality(AttemptAfterSignalAt) <= 1

\* The worker has reported, after the signal, the call it was in, and has
\* then stopped at its checkpoint.
C18_Witness ==
  /\ ObservedPc("cancelled")
  /\ Cardinality(AttemptAfterSignalAt) = 1
  /\ Cardinality(AttemptAt) = 1

(* ------------------------------- C19 ------------------------------------ *)
\* C19: every claim submission of a worker is followed by exactly one
\* attempt event that carries the attempt's number, the worker's id and the
\* outcome (success iff the submission returned no error), written before
\* the worker's next submission; failed attempts are reported like the
\* successful one.
C19_EverySubmissionReported ==
  /\ \A i \in SubmitAt :
       /\ (Len(trace) >= i + 1 =>
             trace[i + 1].kind = "return" /\ trace[i + 1].attempt = trace[i].attempt)
       /\ (Len(trace) >= i + 2 =>
             /\ trace[i + 2].kind = "write"
             /\ trace[i + 2].event =
                  [action |-> "attempt", attempt_number |-> trace[i].attempt, id |-> wid,
                   success |-> (trace[i + 1].err = "nil")])
       /\ (Len(trace) < i + 2 => (ObservedPc("call") \/ ObservedPc("wlog")))
  /\ \A k \in AttemptAt : k >= 3 /\ (k - 2) \in SubmitAt
  /\ \A i, j \in SubmitAt : i < j => trace[j].attempt > trace[i].attempt

\* The worker has reported a failed first attempt and a successful second
\* one.
C19_Witness ==
  /\ ObservedPc("succeeded")
  /\ Cardinality(AttemptAt) = 2
  /\ ~trace[3].event.success
  /\ trace[6].event.success

(* ------------------------------- C20 ------------------------------------ *)
\* C20: when every claim submission fails and the token is never signalled,
\* each of the 5 workers makes exactly maxAttempts submissions and
\* terminates: the session has then written 5 x maxAttempts attempt events,
\* all with success = false, and no worker has written a success event.
C20_ExhaustionCounts ==
  /\ [](PcCount("exhausted") = NumWorkers =>
          /\ nAttempt = NumWorkers * maxAttempts
          /\ nSuccessAttempt = 0
          /\ nWorkerSuccess = 0
          /\ ~cancelled)
  /\ [](\A s \in BagToSet(workers) : s.pc = "exhausted" => s.attempt = maxAttempts)
  /\ [][PcCount("exhausted")' >= PcCount("exhausted")]_vars

\* All five workers have used up their attempts.
C20_Witness ==
  /\ PcCount("exhausted") = NumWorkers
  /\ nAttempt = NumWorkers * maxAttempts
  /\ hpc = "wait"

(* ------------------------------- C21 ------------------------------------ *)
\* C21: a claim worker that has used up its attempts without a success
\* writes an informational completion event before it terminates: the last
\* event of an exhausted worker is an "info" event that follows its last
\* attempt event.
C21_ExhaustionReported ==
  ObservedPc("exhausted") =>
    /\ trace # <<>>
    /\ trace[Len(trace)].kind = "write"
    /\ trace[Len(trace)].event.action = "info"

(* ------------------------------- C22 ------------------------------------ *)
\* C22: when the relay monitor's transfer submission fails, the monitor
\* writes a progress event for that failure and then goes back to its loop
\* top (it neither terminates nor leaves the polling loop).
C22_TransferFailureReported ==
  /\ [][(mpc = "transfer" /\ mpc' \notin {"transfer", "wSucc"}) => mpc' = "wRetry"]_vars
  /\ [][mpc = "wRetry" => mpc' \in {"wRetry", "top"}]_vars

(* ------------------------------- C23 ------------------------------------ *)
\* C23: the relay monitor has a transfer submission in flight only when its
\* balance query of that round returned, without error, a text that stands
\* for a nonzero spendable balance: never for "0", for "0.00" or after a
\* failed query.
C23_TransferOnlyWhenNonzero ==
  mpc = "transfer" => (mtext \notin ZeroTexts /\ mtext \notin {"", "err"})

(* ------------------------------- C24 ------------------------------------ *)
\* a step in which a submission returns with an error, and one in which a
\* worker leaves the report of a failed submission
FailureReturns ==
  \E s \in BagToSet(workers) :
    /\ s.pc = "call"
    /\ CopiesIn(s, workers') < CopiesIn(s, workers)
    /\ CopiesIn(WorkerState("wlog", s.attempt, "err"), workers')
         > CopiesIn(WorkerState("wlog", s.attempt, "err"), workers)
FailureReported ==
  \E s \in BagToSet(workers) :
    /\ s.pc = "wlog"
    /\ s.err = "err"
    /\ CopiesIn(s, workers') < CopiesIn(s, workers)

\* all workers but one are as they were; that one is at the same attempt or
\* at the next
OneWorkerMoved ==
  \E s \in BagToSet(workers), t \in BagToSet(workers') :
    /\ workers (-) SetToBag({s}) = workers' (-) SetToBag({t})
    /\ t.attempt \in {s.attempt, s.attempt + 1}
    /\ t.pc \in {"wlog", "top", "exhausted"}

\* C24: a failed claim submission of one worker changes nothing of the
\* other actors: in the step where it returns and in the step where it is
\* reported the other workers (position, attempt counter), the relay
\* monitor, the orchestrator and the cancellation token are unchanged; the
\* token is signalled only in sessions where a submission has succeeded.
C24_FailureTouchesNobodyElse ==
  /\ [][(FailureReturns \/ FailureReported) =>
          /\ OneWorkerMoved
          /\ cancelled' = cancelled
          /\ mpc' = mpc
          /\ mtext' = mtext
          /\ hpc' = hpc
          /\ apc' = apc
          /\ wg' >= wg - 1]_vars
  /\ [](cancelled => (nSuccessAttempt = 1 /\ PcCount("succeeded") = 1))

\* A worker is at its second attempt after a failed first one while the
\* monitor polls, other workers are in their calls and nobody has signalled.
C24_Witness ==
  /\ \E s \in BagToSet(workers) : s.attempt = 2 /\ s.pc = "call"
  /\ nAttempt >= 1
  /\ nSuccessAttempt = 0
  /\ ~cancelled
  /\ mpc = "query"
  /\ PcCount("call") >= 2

(* ------------------------------- C25 ------------------------------------ *)
\* the observed worker has returned from aggressiveClaim
ObservedTerminated == \E pc \in WorkerTerminal : ObservedPc(pc)

\* C25: a claim worker that has terminated with fewer than maxAttempts
\* submissions made has terminated because the cancellation token was
\* signalled (by itself after a success, or by another actor); a worker
\* whose submissions all failed and that saw no signal has made all
\* maxAttempts of them.
C25_EarlyEndOnlyBySignal ==
  /\ (ObservedTerminated /\ Cardinality(SubmitAt) < maxAttempts) => cancelled
  /\ (ObservedTerminated /\ ~cancelled) =>
       /\ ObservedPc("exhausted")
       /\ Cardinality(AttemptAt) = maxAttempts
       /\ \A i \in AttemptAt : ~trace[i].event.success

\* The worker has stopped after one failed submission, on a signal of
\* another actor.
C25_Witness ==
  /\ ObservedPc("cancelled")
  /\ cancelled
  /\ Cardinality(SubmitAt) = 1
  /\ Len(trace) = 3
  /\ ~trace[3].event.success

(* ------------------------------- C26 ------------------------------------ *)
\* C26: the cancellation token is set once and for all: a set token is set
\* in every later state, and a signal on a token that is already set (a
\* worker whose call succeeded while another actor was signalling) leaves
\* it set: a worker that has signalled and returned always leaves the token
\* set behind it.
C26_TokenOnceSet ==
  /\ [][cancelled => cancelled']_vars
  /\ [](ObservedPc("succeeded") => cancelled)

\* The worker has signalled a token that another actor had already set: it
\* wrote its success event with cb.ctx done, then called cb.cancel().
C26_Witness ==
  /\ ObservedPc("succeeded")
  /\ cancelled
  /\ trace[Len(trace)].event = SuccessEvent
  /\ trace[Len(trace)].signalled

(* ------------------------------- C27 ------------------------------------ *)
\* the fee tiers the claim names
TierSet == {3200000, 9400000, 5000000, 7500000, 12000000}

AttemptEvents ==
  SelectSeq(trace, LAMBDA e : e.kind = "write" /\ e.event.action = "attempt")

\* C28: the k-th attempt event a claim worker writes carries attempt number
\* k: the numbers start at 1 and rise by one from each event to the next,
\* without gap or repeat, and none exceeds maxAttempts.
C28_AttemptNumbersInOrder ==
  \A k \in DOMAIN AttemptEvents :
    /\ AttemptEvents[k].event.attempt_number = k
    /\ k <= maxAttempts

\* The worker has written maxAttempts attempt events, the last of them for
\* a submission that succeeded.
C28_Witness ==
  /\ ObservedPc("succeeded")
  /\ Len(AttemptEvents) = maxAttempts
  /\ AttemptEvents[maxAttempts].event = [action |-> "attempt", attempt_number |-> maxAttempts,
                                         id |-> wid, success |-> TRUE]

ActionsSeen ==
  (IF request = "ok" /\ hpc # "read" THEN {"server_time"} ELSE {})
    \cup (IF nError > 0 \/ hpc \in {"wErr", "bwErr"} THEN {"error"} ELSE {})
    \cup (IF hpc = "wSched" THEN {"scheduled"} ELSE {})
    \cup (IF hpc \in {"bwInfo", "bwSched"} \/ mpc \in {"wHello", "wRetry"} THEN {"info"} ELSE {})
    \cup (IF nAttempt > 0 \/ (\E s \in BagToSet(workers) : s.pc = "wlog")
            THEN {"attempt"} ELSE {})
    \cup (IF nWorkerSuccess + nRelayed > 0 \/ mpc = "wSucc"
              \/ (\E s \in BagToSet(workers) : s.pc = "wsucc")
            THEN {"success"} ELSE {})
    \cup (IF apc = "write" THEN {aout} ELSE {})

\* C30 as stated: every event written to the observer connection has an
\* action, and that action is one of info, attempt, success, error,
\* scheduled, waiting.
C30_EventKindsClosed ==
  /\ nNoAction = 0
  /\ ActionsSeen \subseteq {"info", "attempt", "success", "error", "scheduled", "waiting"}

\* C30, amended: the action of every event written as a WithdrawResponse is
\* one of info, attempt, success, error, scheduled, server_time,
\* available_balance_error, available_transferred, available_transfer_failed
\* (in particular never "waiting" and never empty).
C30_EventKindsOfSession ==
  [](ActionsSeen \subseteq {"info", "attempt", "success", "error", "scheduled", "server_time",
                            "available_balance_error", "available_transferred",
                            "available_transfer_failed"})

\* handleAvailableBalance reports a failed transfer while the claim workers
\* have already reported attempts.
C30_Witness ==
  /\ apc = "write"
  /\ aout = "available_transfer_failed"
  /\ {"server_time", "attempt", "available_transfer_failed"} \subseteq ActionsSeen

(* ------------------------------- C31 ------------------------------------ *)
\* C31: the cancellation token is set only after a claim submission has
\* succeeded and has been reported: whenever the token is set, an attempt
\* event with success = true and a worker's success event have been
\* written, the attempt event before the success event, and both before
\* the step that sets the token.
C31_SignalAfterReportedSuccess ==
  /\ [](cancelled => (nSuccessAttempt >= 1 /\ nWorkerSuccess >= 1))
  /\ [](nWorkerSuccess >= 1 => nSuccessAttempt >= 1)
  /\ [][(~cancelled /\ cancelled') =>
          /\ nSuccessAttempt >= 1
          /\ nWorkerSuccess >= 1
          /\ UNCHANGED <<nSuccessAttempt, nWorkerSuccess>>]_vars

\* The token has been set after both events while other workers are still
\* in their calls.
C31_Witness ==
  /\ cancelled
  /\ nSuccessAttempt = 1
  /\ nWorkerSuccess = 1
  /\ PcCount("call") >= 1
  /\ mpc = "query"

(* ------------------------------- C32 ------------------------------------ *)
\* C32: for a claimable balance whose claimant list is empty the handler
\* never faults (no index out of range on the first claimant): the session
\* ends with one error event and without a race.
C32_EmptyListEndsInError ==
  (request = "ok" /\ resource = <<>>) =>
    /\ hpc # "fault"
    /\ workers = EmptyBag
    /\ (hpc = "returned" => nError = 1)

(* ------------------------------- C33 ------------------------------------ *)
\* C33: once Withdraw has returned and closed the observer connection no
\* goroutine of the session writes an event: no conn.WriteJSON of the
\* handleAvailableBalance goroutine, of a claim worker, of the relay monitor
\* or of the orchestrator is in progress on the closed connection.
C33_NoWriteAfterClose ==
  (hpc = "returned" /\ connClosed) =>
    /\ apc # "write"
    /\ writeMu = "free"
    /\ botMu = Free

(* ------------------------------- C34 ------------------------------------ *)
\* C34: at most one transfer submission from the primary signer is in
\* flight at any time: TransferWithFee of handleAvailableBalance and
\* TransferWithFee of the relay monitor are never in progress together.
C34_OneTransferInFlight == ~(apc = "transfer" /\ mpc = "transfer")

(* ------------------------------- C35 ------------------------------------ *)
\* C35: ExtractClaimableTime is total: it returns a result for every
\* predicate value, and for a NOT predicate whose inner predicate is absent
\* it returns (_, false) rather than faulting on the nil pointer.
C35_ResolverTotal ==
  res.called =>
    /\ ~res.out.fault
    /\ ((p.type = "NOT" /\ p.inner.type = "nil") => ~res.out.ok)
====
